---- MODULE Spec2Model ----
(***************************************************************************)
(* Seasonality-detection benchmark: simulate -> detect -> evaluate.        *)
(*   simulation.py  generate_all_scenarios and the seven scenario          *)
(*                  generators, fed by one seeded random stream            *)
(*   detection.py   run_all_methods and the seven run_* wrappers around    *)
(*                  the DuckDB backend                                     *)
(*   evaluation.py  get_ground_truth, compute_binary_metrics,              *)
(*                  compute_auc_roc, evaluate_method, evaluate_scenario    *)
(*                  and evaluate_all                                       *)
(*                  and the run of its __main__ block, which chains the    *)
(*                  three stages                                           *)
(* Reals are scaled integers: amplitudes, noise_sd and trends in           *)
(* thousandths, confidences and strengths in tenths.  sin and exp are not  *)
(* evaluated: every value of a series is kept as the record of the terms   *)
(* the code adds up.  The metrics of evaluation.py are exact fractions:    *)
(* the rounding of float64 is not represented.                             *)
(***************************************************************************)
EXTENDS Integers, Sequences, FiniteSets, TLC

VARIABLES
    \* ---- generate_all_scenarios (simulation.py) ----
    n_series_per_scenario, params, seed,   \* the arguments of the call
    pcGen,        \* "idle" | "scenario" | "returned" | "raised"
    rng,          \* state of the random stream
    all_series,   \* all_series of generate_all_scenarios
    scenIdx,      \* position in the scenarios list (1-based)
    scenSeries,   \* series_list of the running scenario generator
    gi,           \* loop variable i of the running scenario generator
    nDraws,       \* random numbers drawn during this call
    callNo,       \* 1: first call, 2: the same call repeated
    outputs,      \* outputs[c]: what call c returned
    \* ---- run_all_methods (detection.py) ----
    series_list, known_period,   \* the arguments of the call
    pcDet,        \* "idle" | "load" | "loop" | "calling" | "returned" | "raised"
    session,      \* "none" | "open" | "closed"
    opens, closes,\* number of times a session was opened / closed
    di, dj,       \* position of the two nested loops (series, method), 1-based
    results,      \* results of run_all_methods
    backendMode,  \* "up" | "down" (down: every detection call raises)
    backendLevel, \* which answers the backend gives when it answers
    deviations,   \* failures and delays the backend may still produce while it is up
    raisedCalls,  \* indices of the calls in which the backend raised
    lateCalls,    \* indices of the calls that ran longer than the timeout
    inFlight,     \* [raises, late] of the call being executed
    backendCalls, \* the backend calls of this run in the order they were issued:
                  \* [series, method, done], done once the call returned or raised
    \* ---- the same run with one more failing call ----
    results2,     \* results of the second run
    status2,      \* "running" | "returned" | "raised"
    failAt,       \* index of the call that raises in the second run only (0: none yet)
    \* ---- compute_binary_metrics, compute_auc_roc (evaluation.py) ----
    y_true, y_pred, scores,   \* the arguments of the calls
    tieOrder,     \* "kept" | "reversed": how np.argsort orders equal scores
    pcMet,        \* "idle" | "binary" | "done"
    binary_metrics,  \* what compute_binary_metrics returned
    auc,          \* what compute_auc_roc returned
    \* ---- evaluate_all (evaluation.py), on results and series_list ----
    pcEval,       \* "idle" | "methods" | "scenarios" | "returned" | "raised"
    results_df, ground_truth_df,   \* the two frames of evaluate_all
    eval_methods, eval_scenarios,  \* results_df["method"].unique(), ["scenario"].unique()
    mi, si,       \* position of the loops over methods and scenarios, 1-based
    method_metrics, scenario_metrics,   \* the rows appended so far
    reordering,   \* "same" | "reversed": how the second evaluation's inputs are permuted
    method_metrics2  \* method-level rows of the evaluation of the permuted inputs

genVars == <<n_series_per_scenario, params, seed, pcGen, rng, all_series, scenIdx,
             scenSeries, gi, nDraws, callNo, outputs>>
detVars == <<series_list, known_period, pcDet, session, opens, closes, di, dj, results,
             backendMode, backendLevel, deviations, raisedCalls, lateCalls, inFlight,
             backendCalls, results2, status2, failAt>>
evalVars == <<y_true, y_pred, scores, tieOrder, pcMet, binary_metrics, auc, pcEval,
              results_df, ground_truth_df, eval_methods, eval_scenarios, mi, si,
              method_metrics, scenario_metrics, reordering, method_metrics2>>
vars == <<genVars, detVars, evalVars>>

\* ---------------------------------------------------------------- bounds
MaxNSeries == 2
MaxNPoints == 11
MaxPeriod == 2
MaxSeed == 1
MaxSeries == 2
MaxDeviations == 1

\* Optional values: None is the empty tuple, Some(x) the one-element tuple.
None == <<>>
Some(x) == <<x>>

Max(a, b) == IF a >= b THEN a ELSE b

\* ------------------------------------------------------- simulation.py
\* SimulationParams defaults, in thousandths.
DefaultNoiseSd == 1000
DefaultTrendSlope == 0

SimulationParams(np, per) ==
    [n_points |-> np, period |-> per, trend_slope |-> DefaultTrendSlope,
     noise_sd |-> DefaultNoiseSd, seed |-> None]

\* The random stream: a deterministic generator whose whole state is fixed by
\* the seed (numpy's PCG64, here a full-period linear congruential generator).
RngModulus == 16

default_rng_unseeded(s) == rng

default_rng(s) == s % RngModulus

RngStep(state) == (5 * state + 3) % RngModulus

\* rng.uniform(lo, hi): one draw.
uniform(state, lo, hi) ==
    LET s == RngStep(state)
    IN [rng |-> s, value |-> lo + ((hi - lo) * s) \div RngModulus]

RECURSIVE NormalDraws(_, _, _)
NormalDraws(state, sd, n) ==
    IF n <= 0 THEN [rng |-> state, value |-> <<>>]
    ELSE LET s == RngStep(state)
             rest == NormalDraws(s, sd, n - 1)
         IN [rng |-> rest.rng, value |-> <<[sd |-> sd, z |-> s]>> \o rest.value]

\* generate_noise: rng.normal(0, sd, n), n draws; a negative n raises ValueError.
generate_noise(n, sd, state) ==
    IF n < 0 THEN [raised |-> TRUE, rng |-> state, value |-> <<>>]
    ELSE [raised |-> FALSE] @@ NormalDraws(state, sd, n)

\* np.arange(n): 0 .. n-1, empty for n <= 0.
arange(n) == [k \in 1..n |-> k - 1]

\* A factor of the seasonal term: 1, the amplitude modulation of scenario 5
\* (argument t / (n_points / 2)) or the sigmoid of scenarios 6 and 7
\* (argument (t - midpoint) / transition_width).
Gate(kind, num, den) == [kind |-> kind, num |-> num, den |-> den]

Frac(num, den) == [num |-> num, den |-> den]

Ungated == Gate("one", 0, Frac(1, 1))

\* generate_seasonal_component: amplitude * sin(2 pi t / period + phase).
generate_seasonal_component(n, period, amplitude, phase) ==
    [k \in 1..n |-> [amp |-> amplitude, gate |-> Ungated, t |-> arange(n)[k],
                     period |-> period, phase |-> phase]]

\* generate_trend: intercept + slope * t.
generate_trend(n, slope, intercept) ==
    [k \in 1..n |-> intercept + slope * arange(n)[k]]

\* values = trend + seasonal + noise, element by element.
AddComponents(trend, seasonal, noise) ==
    [k \in 1..Len(trend) |->
        [trend |-> trend[k], seasonal |-> seasonal[k], noise |-> noise[k]]]

NoSeasonal(n) == [k \in 1..n |-> [amp |-> 0, gate |-> Ungated, t |-> arange(n)[k],
                                  period |-> 0, phase |-> 0]]

\* amplitude^2 / (amplitude^2 + sd^2) as a fraction.
Strength(amplitude, sd) ==
    [num |-> amplitude * amplitude, den |-> amplitude * amplitude + sd * sd]

ZeroStrength == [num |-> 0, den |-> 1]

SimulatedSeries_id_zero(values, true_period, true_strength, seasonality_type, scenario, id) ==
    [values |-> values, true_period |-> true_period, true_strength |-> true_strength,
     seasonality_type |-> seasonality_type, scenario |-> scenario, series_id |-> 0]

SimulatedSeries(values, true_period, true_strength, seasonality_type, scenario, id) ==
    [values |-> values, true_period |-> true_period, true_strength |-> true_strength,
     seasonality_type |-> seasonality_type, scenario |-> scenario, series_id |-> id]

\* What one pass of a scenario generator's loop does: the series it appends,
\* the state it leaves the stream in, the draws it made, whether it raised.
LoopBody(series, noise, drawsBefore, p) ==
    [raised |-> noise.raised, rng |-> noise.rng,
     draws |-> drawsBefore + Max(p.n_points, 0), series |-> series]

GatedSeasonal(n, period, amplitude, phase, gates) ==
    [k \in 1..n |-> [amp |-> amplitude, gate |-> gates[k], t |-> arange(n)[k],
                     period |-> period, phase |-> phase]]

\* Whether numpy evaluates a gate to a finite number.  A zero divisor does not
\* raise: x / 0 is inf (0 / 0 is nan, with a RuntimeWarning).  sin(inf) and
\* every function of nan are nan, while 1 / (1 + exp(inf)) is 0 and
\* 1 / (1 + exp(-inf)) is 1.
GateFinite(g) ==
    CASE g.kind = "one" -> TRUE
      [] g.kind = "modulated" -> g.den.num # 0
      [] OTHER -> g.den.num # 0 \/ g.num # 0

TwoPi == 6283
Intercept == 10000

generate_scenario_1_strong_seasonal(i, p, state) ==
    LET amplitude == uniform(state, 3000, 5000)
        phase == uniform(amplitude.rng, 0, TwoPi)
        seasonal == generate_seasonal_component(p.n_points, p.period, amplitude.value, phase.value)
        trend == generate_trend(p.n_points, p.trend_slope, Intercept)
        noise == generate_noise(p.n_points, p.noise_sd, phase.rng)
    IN LoopBody(SimulatedSeries(AddComponents(trend, seasonal, noise.value), p.period,
                                Strength(amplitude.value, p.noise_sd),
                                "strong", "strong_seasonal", i), noise, 2, p)

generate_scenario_2_weak_seasonal(i, p, state) ==
    LET amplitude == uniform(state, 300, 700)
        phase == uniform(amplitude.rng, 0, TwoPi)
        seasonal == generate_seasonal_component(p.n_points, p.period, amplitude.value, phase.value)
        trend == generate_trend(p.n_points, p.trend_slope, Intercept)
        noise == generate_noise(p.n_points, p.noise_sd * 2, phase.rng)
    IN LoopBody(SimulatedSeries(AddComponents(trend, seasonal, noise.value), p.period,
                                Strength(amplitude.value, p.noise_sd * 2),
                                "weak", "weak_seasonal", i), noise, 2, p)

generate_scenario_3_period_kept(i, p, state) ==
    LET trend == generate_trend(p.n_points, p.trend_slope, Intercept)
        noise == generate_noise(p.n_points, p.noise_sd, state)
    IN LoopBody(SimulatedSeries(AddComponents(trend, NoSeasonal(p.n_points), noise.value),
                                p.period, ZeroStrength, "none", "no_seasonal", i),
                noise, 0, p)

generate_scenario_3_no_seasonal(i, p, state) ==
    LET trend == generate_trend(p.n_points, p.trend_slope, Intercept)
        noise == generate_noise(p.n_points, p.noise_sd, state)
    IN LoopBody(SimulatedSeries(AddComponents(trend, NoSeasonal(p.n_points), noise.value),
                                0, ZeroStrength, "none", "no_seasonal", i),
                noise, 0, p)

generate_scenario_4_trending_seasonal(i, p, state) ==
    LET amplitude == uniform(state, 2000, 4000)
        phase == uniform(amplitude.rng, 0, TwoPi)
        strong_slope == uniform(phase.rng, 300, 500)
        seasonal == generate_seasonal_component(p.n_points, p.period, amplitude.value, phase.value)
        trend == generate_trend(p.n_points, strong_slope.value, Intercept)
        noise == generate_noise(p.n_points, p.noise_sd, strong_slope.rng)
    IN LoopBody(SimulatedSeries(AddComponents(trend, seasonal, noise.value), p.period,
                                Strength(amplitude.value, p.noise_sd),
                                "moderate", "trending_seasonal", i), noise, 3, p)

generate_scenario_5_variable_amplitude(i, p, state) ==
    LET base_amplitude == uniform(state, 2000, 4000)
        phase == uniform(base_amplitude.rng, 0, TwoPi)
        t == arange(p.n_points)
        amplitude_mod == [k \in 1..p.n_points |->
                             Gate("modulated", t[k], Frac(p.n_points, 2))]
        seasonal == GatedSeasonal(p.n_points, p.period, base_amplitude.value, phase.value,
                                  amplitude_mod)
        trend == generate_trend(p.n_points, p.trend_slope, Intercept)
        noise == generate_noise(p.n_points, p.noise_sd, phase.rng)
    IN LoopBody(SimulatedSeries(AddComponents(trend, seasonal, noise.value), p.period,
                                Strength(base_amplitude.value, p.noise_sd),
                                "variable", "variable_amplitude", i), noise, 2, p)

generate_scenario_6_emerging_seasonal(i, p, state) ==
    LET amplitude == uniform(state, 3000, 5000)
        phase == uniform(amplitude.rng, 0, TwoPi)
        t == arange(p.n_points)
        midpoint == p.n_points \div 2
        transition_width == p.n_points \div 10
        transition == [k \in 1..p.n_points |->
                          Gate("sigmoid", t[k] - midpoint, Frac(transition_width, 1))]
        seasonal == GatedSeasonal(p.n_points, p.period, amplitude.value, phase.value,
                                  transition)
        trend == generate_trend(p.n_points, p.trend_slope, Intercept)
        noise == generate_noise(p.n_points, p.noise_sd, phase.rng)
    IN LoopBody(SimulatedSeries(AddComponents(trend, seasonal, noise.value), p.period,
                                Strength(amplitude.value, p.noise_sd),
                                "emerging", "emerging_seasonal", i), noise, 2, p)

generate_scenario_7_fading_seasonal(i, p, state) ==
    LET amplitude == uniform(state, 3000, 5000)
        phase == uniform(amplitude.rng, 0, TwoPi)
        t == arange(p.n_points)
        midpoint == p.n_points \div 2
        transition_width == p.n_points \div 10
        transition == [k \in 1..p.n_points |->
                          Gate("inverse_sigmoid", t[k] - midpoint, Frac(transition_width, 1))]
        seasonal == GatedSeasonal(p.n_points, p.period, amplitude.value, phase.value,
                                  transition)
        trend == generate_trend(p.n_points, p.trend_slope, Intercept)
        noise == generate_noise(p.n_points, p.noise_sd, phase.rng)
    IN LoopBody(SimulatedSeries(AddComponents(trend, seasonal, noise.value), p.period,
                                Strength(amplitude.value, p.noise_sd),
                                "fading", "fading_seasonal", i), noise, 2, p)

\* The scenarios list of generate_all_scenarios, in its order.
scenarios_swapped ==
    <<"strong_seasonal", "no_seasonal", "weak_seasonal", "trending_seasonal",
      "variable_amplitude", "emerging_seasonal", "fading_seasonal">>

scenarios ==
    <<"strong_seasonal", "weak_seasonal", "no_seasonal", "trending_seasonal",
      "variable_amplitude", "emerging_seasonal", "fading_seasonal">>

\* One pass of the loop of the generator registered under `name`.
ScenarioGenerator(name, i, p, state) ==
    CASE name = "strong_seasonal" -> generate_scenario_1_strong_seasonal(i, p, state)
      [] name = "weak_seasonal" -> generate_scenario_2_weak_seasonal(i, p, state)
      [] name = "no_seasonal" -> generate_scenario_3_no_seasonal(i, p, state)
      [] name = "trending_seasonal" -> generate_scenario_4_trending_seasonal(i, p, state)
      [] name = "variable_amplitude" -> generate_scenario_5_variable_amplitude(i, p, state)
      [] name = "emerging_seasonal" -> generate_scenario_6_emerging_seasonal(i, p, state)
      [] name = "fading_seasonal" -> generate_scenario_7_fading_seasonal(i, p, state)

\* ---- generate_all_scenarios as steps ----
\* rng = np.random.default_rng(seed); all_series = []
GenCall ==
    /\ UNCHANGED <<detVars, evalVars>>
    /\ pcGen = "idle"
    /\ rng' = default_rng(seed)
    /\ all_series' = <<>>
    /\ scenIdx' = 1
    /\ scenSeries' = <<>>
    /\ gi' = 0
    /\ nDraws' = 0
    /\ pcGen' = "scenario"
    /\ UNCHANGED <<n_series_per_scenario, params, seed, callNo, outputs>>

\* for i in range(n_series): ... series_list.append(SimulatedSeries(...))
GenIter ==
    /\ UNCHANGED <<detVars, evalVars>>
    /\ pcGen = "scenario"
    /\ scenIdx <= Len(scenarios)
    /\ gi < n_series_per_scenario
    /\ LET body == ScenarioGenerator(scenarios[scenIdx], gi, params, rng)
       IN /\ ~body.raised
          /\ scenSeries' = Append(scenSeries, body.series)
          /\ rng' = body.rng
          /\ nDraws' = nDraws + body.draws
    /\ gi' = gi + 1
    /\ UNCHANGED <<n_series_per_scenario, params, seed, pcGen, all_series, scenIdx,
                   callNo, outputs>>

\* rng.normal raises ValueError on a negative size, after the uniform draws of
\* the pass; nothing catches it, so generate_all_scenarios raises.
GenIterRaise ==
    /\ UNCHANGED <<detVars, evalVars>>
    /\ pcGen = "scenario"
    /\ scenIdx <= Len(scenarios)
    /\ gi < n_series_per_scenario
    /\ LET body == ScenarioGenerator(scenarios[scenIdx], gi, params, rng)
       IN /\ body.raised
          /\ rng' = body.rng
          /\ nDraws' = nDraws + body.draws
    /\ pcGen' = "raised"
    /\ UNCHANGED <<n_series_per_scenario, params, seed, all_series, scenIdx, scenSeries,
                   gi, callNo, outputs>>

\* return series_list; all_series.extend(series)
GenScenarioDone ==
    /\ UNCHANGED <<detVars, evalVars>>
    /\ pcGen = "scenario"
    /\ scenIdx <= Len(scenarios)
    /\ gi >= n_series_per_scenario
    /\ all_series' = all_series \o scenSeries
    /\ scenSeries' = <<>>
    /\ gi' = 0
    /\ scenIdx' = scenIdx + 1
    /\ UNCHANGED <<n_series_per_scenario, params, seed, pcGen, rng, nDraws, callNo, outputs>>

\* return all_series
GenReturn ==
    /\ UNCHANGED <<detVars, evalVars>>
    /\ pcGen = "scenario"
    /\ scenIdx > Len(scenarios)
    /\ pcGen' = "returned"
    /\ outputs' = [outputs EXCEPT ![callNo] = all_series]
    /\ UNCHANGED <<n_series_per_scenario, params, seed, rng, all_series, scenIdx,
                   scenSeries, gi, nDraws, callNo>>

\* The caller calls generate_all_scenarios again with the same arguments.
GenCallAgain ==
    /\ UNCHANGED <<detVars, evalVars>>
    /\ pcGen \in {"returned", "raised"}
    /\ callNo = 1
    /\ callNo' = 2
    /\ pcGen' = "idle"
    /\ UNCHANGED <<n_series_per_scenario, params, seed, rng, all_series, scenIdx,
                   scenSeries, gi, nDraws, outputs>>

GenNext ==
    \/ GenCall
    \/ GenIter
    \/ GenIterRaise
    \/ GenScenarioDone
    \/ GenReturn
    \/ GenCallAgain

\* -------------------------------------------------------- detection.py
DetectionResult(series, method, detected_period, confidence, strength, is_seasonal, classification, extra) ==
    [series_id |-> series.series_id, scenario |-> series.scenario, method |-> method,
     detected_period |-> detected_period, confidence |-> confidence,
     strength |-> strength, is_seasonal |-> is_seasonal,
     classification |-> classification, extra |-> extra]

\* A dict is the sequence of its (key, value) pairs, in insertion order.
HasKey(dict, key) == \E k \in 1..Len(dict) : dict[k][1] = key

\* What a call of a run_* function ends in: a returned value, or an exception
\* that leaves the function.
Returned(value) == [propagated |-> FALSE, value |-> value]
Propagated == [propagated |-> TRUE, value |-> <<>>]

\* The answers of the backend, three per function, from "nothing found" to
\* "clearly seasonal".  Confidences and strengths are in tenths.
Levels == {0, 1, 2}

FftResponse(level) ==
    CASE level = 0 -> [primary_period |-> None, confidence |-> 0, n_periods |-> 0]
      [] level = 1 -> [primary_period |-> Some(6), confidence |-> 3, n_periods |-> 1]
      [] OTHER -> [primary_period |-> Some(12), confidence |-> 8, n_periods |-> 2]

AcfResponse(level) ==
    CASE level = 0 -> [period |-> None, confidence |-> 0, acf_values |-> <<>>]
      [] level = 1 -> [period |-> Some(6), confidence |-> 3, acf_values |-> <<3>>]
      [] OTHER -> [period |-> Some(12), confidence |-> 8, acf_values |-> <<8, 5>>]

StrengthResponse(level) ==
    CASE level = 0 -> None
      [] level = 1 -> Some(3)
      [] OTHER -> Some(8)

ClassifyResponse(level) ==
    CASE level = 0 -> [classification |-> None, mean_strength |-> 0, is_seasonal |-> FALSE,
                       cycle_strengths |-> <<>>, n_cycles |-> 0]
      [] level = 1 -> [classification |-> Some("weak"), mean_strength |-> 3,
                       is_seasonal |-> FALSE, cycle_strengths |-> <<3>>, n_cycles |-> 1]
      [] OTHER -> [classification |-> Some("strong"), mean_strength |-> 8,
                   is_seasonal |-> TRUE, cycle_strengths |-> <<8, 8>>, n_cycles |-> 2]

ChangeResponse(level) ==
    CASE level = 0 -> [n_changes |-> 0, change_points |-> <<>>, strength_curve |-> <<>>]
      [] level = 1 -> [n_changes |-> 1, change_points |-> <<5>>, strength_curve |-> <<3>>]
      [] OTHER -> [n_changes |-> 2, change_points |-> <<3, 7>>, strength_curve |-> <<8, 3>>]

\* conn.execute(query).fetchone()[0] of one call: it raises or it answers.
\* out = [raises, late, level].
ErrorExtra(message) == <<<<"error", message>>>>

\* The threshold of the strength methods, 0.3, in tenths.
StrengthThreshold == 3

run_fft_detection(series, out) ==
    IF out.raises
    THEN Returned(DetectionResult(series, "fft", None, 0, 0, FALSE, None,
                                  ErrorExtra("backend")))
    ELSE LET result == FftResponse(out.level)
         IN Returned(DetectionResult(series, "fft", result.primary_period,
                                     result.confidence, result.confidence,
                                     result.n_periods > 0, None,
                                     <<<<"n_periods", result.n_periods>>>>))

\* result.get("period", 0) > 0 compares None with 0 when the period is null:
\* a TypeError inside the try block, which the except clause turns into the
\* error result.
run_acf_detection(series, out) ==
    IF out.raises
    THEN Returned(DetectionResult(series, "acf", None, 0, 0, FALSE, None,
                                  ErrorExtra("backend")))
    ELSE LET result == AcfResponse(out.level)
         IN IF result.period = None
            THEN Returned(DetectionResult(series, "acf", None, 0, 0, FALSE, None,
                                          ErrorExtra("TypeError")))
            ELSE Returned(DetectionResult(series, "acf", result.period,
                                          result.confidence, result.confidence,
                                          result.period[1] > 0, None,
                                          <<<<"acf_values", result.acf_values>>>>))

\* strength if strength else 0.0: None and 0.0 both give 0.0.
OrZero(strength) == IF strength = None THEN 0 ELSE strength[1]

StrengthMethod_inclusive(series, period, out, method) ==
    IF out.raises
    THEN Returned(DetectionResult(series, method, Some(period), 0, 0, FALSE, None,
                                  ErrorExtra("backend")))
    ELSE LET strength == StrengthResponse(out.level)
         IN Returned(DetectionResult(series, method, Some(period), OrZero(strength),
                                     OrZero(strength), OrZero(strength) >= StrengthThreshold,
                                     None, <<>>))

StrengthMethod(series, period, out, method) ==
    IF out.raises
    THEN Returned(DetectionResult(series, method, Some(period), 0, 0, FALSE, None,
                                  ErrorExtra("backend")))
    ELSE LET strength == StrengthResponse(out.level)
         IN Returned(DetectionResult(series, method, Some(period), OrZero(strength),
                                     OrZero(strength), OrZero(strength) > StrengthThreshold,
                                     None, <<>>))

run_variance_strength(series, period, out) ==
    StrengthMethod(series, period, out, "variance_strength")

run_spectral_strength_uncaught(series, period, out) ==
    IF out.raises THEN Propagated
    ELSE StrengthMethod(series, period, out, "spectral_strength")

run_spectral_strength(series, period, out) ==
    StrengthMethod(series, period, out, "spectral_strength")

run_wavelet_strength_no_error_key(series, period, out) ==
    IF out.raises
    THEN Returned(DetectionResult(series, "wavelet_strength", Some(period), 0, 0, FALSE,
                                  None, <<>>))
    ELSE StrengthMethod(series, period, out, "wavelet_strength")

run_wavelet_strength(series, period, out) ==
    StrengthMethod(series, period, out, "wavelet_strength")

run_classification(series, period, out) ==
    IF out.raises
    THEN Returned(DetectionResult(series, "classification", Some(period), 0, 0, FALSE,
                                  None, ErrorExtra("backend")))
    ELSE LET result == ClassifyResponse(out.level)
         IN Returned(DetectionResult(series, "classification", Some(period),
                                     result.mean_strength, result.mean_strength,
                                     result.is_seasonal, result.classification,
                                     <<<<"cycle_strengths", result.cycle_strengths>>,
                                       <<"n_cycles", result.n_cycles>>>>))

run_change_detection_error_seasonal(series, period, out) ==
    IF out.raises
    THEN Returned(DetectionResult(series, "change_detection", Some(period), 0, 0, TRUE,
                                  None, ErrorExtra("backend")))
    ELSE LET result == ChangeResponse(out.level)
         IN Returned(DetectionResult(series, "change_detection", Some(period), 0, 0,
                                     result.n_changes > 0, None,
                                     <<<<"n_changes", result.n_changes>>,
                                       <<"change_points", result.change_points>>,
                                       <<"strength_curve", result.strength_curve>>>>))

run_change_detection(series, period, out) ==
    IF out.raises
    THEN Returned(DetectionResult(series, "change_detection", Some(period), 0, 0, FALSE,
                                  None, ErrorExtra("backend")))
    ELSE LET result == ChangeResponse(out.level)
         IN Returned(DetectionResult(series, "change_detection", Some(period), 0, 0,
                                     result.n_changes > 0, None,
                                     <<<<"n_changes", result.n_changes>>,
                                       <<"change_points", result.change_points>>,
                                       <<"strength_curve", result.strength_curve>>>>))

\* The methods list of run_all_methods, in its order.
methods_without_change_detection ==
    <<"fft", "acf", "variance_strength", "spectral_strength", "wavelet_strength",
      "classification">>

methods_fft_twice ==
    <<"fft", "fft", "acf", "variance_strength", "spectral_strength", "wavelet_strength",
      "classification", "change_detection">>

methods ==
    <<"fft", "acf", "variance_strength", "spectral_strength", "wavelet_strength",
      "classification", "change_detection">>

\* method_fn(series) of the entry registered under `name`.
method_fn(name, series, period, out) ==
    CASE name = "fft" -> run_fft_detection(series, out)
      [] name = "acf" -> run_acf_detection(series, out)
      [] name = "variance_strength" -> run_variance_strength(series, period, out)
      [] name = "spectral_strength" -> run_spectral_strength(series, period, out)
      [] name = "wavelet_strength" -> run_wavelet_strength(series, period, out)
      [] name = "classification" -> run_classification(series, period, out)
      [] name = "change_detection" -> run_change_detection(series, period, out)

\* One row of results_to_dataframe.
results_to_dataframe_row(r) ==
    [series_id |-> r.series_id, scenario |-> r.scenario, method |-> r.method,
     detected_period |-> r.detected_period, confidence |-> r.confidence,
     strength |-> r.strength, is_seasonal |-> r.is_seasonal,
     classification |-> r.classification, has_error |-> HasKey(r.extra, "error")]

results_to_dataframe(rs) == [k \in 1..Len(rs) |-> results_to_dataframe_row(rs[k])]

\* ---- run_all_methods as steps ----
DefaultKnownPeriod == 12

NoCall == [raises |-> FALSE, late |-> FALSE, level |-> 0]

\* The level of the answer to the k-th call of a run.
CallLevel(k) == (backendLevel + k) % Cardinality(Levels)

\* What the backend may do with the k-th call: a backend that is down raises
\* every time; one that is up answers in time, and may raise, or answer after
\* the timeout, as long as deviations are left.
Outcomes(k) ==
    IF backendMode = "down"
    THEN {[raises |-> TRUE, late |-> FALSE, level |-> CallLevel(k)]}
    ELSE {[raises |-> FALSE, late |-> FALSE, level |-> CallLevel(k)]} \cup
         (IF deviations > 0
          THEN {[raises |-> TRUE, late |-> FALSE, level |-> CallLevel(k)],
                [raises |-> FALSE, late |-> TRUE, level |-> CallLevel(k)]}
          ELSE {})

\* create_connection, first half: duckdb.connect(...)
DetConnect ==
    /\ UNCHANGED <<genVars, evalVars>>
    /\ pcDet = "idle"
    /\ session' = "open"
    /\ opens' = opens + 1
    /\ pcDet' = "load"
    /\ UNCHANGED <<series_list, known_period, closes, di, dj, results, backendMode,
                   backendLevel, deviations, raisedCalls, lateCalls, inFlight,
                   backendCalls, results2, status2, failAt>>

\* create_connection, second half: conn.execute("LOAD ...") succeeds; results = []
DetLoad ==
    /\ UNCHANGED <<genVars, evalVars>>
    /\ pcDet = "load"
    /\ results' = <<>>
    /\ di' = 1
    /\ dj' = 1
    /\ pcDet' = "loop"
    /\ UNCHANGED <<series_list, known_period, session, opens, closes, backendMode,
                   backendLevel, deviations, raisedCalls, lateCalls, inFlight,
                   backendCalls, results2, status2, failAt>>

\* conn.execute("LOAD ...") raises (the extension is not built): nothing catches
\* it, so create_connection and run_all_methods raise.
DetLoadRaise ==
    /\ UNCHANGED <<genVars, evalVars>>
    /\ pcDet = "load"
    /\ pcDet' = "raised"
    /\ status2' = "raised"
    /\ UNCHANGED <<series_list, known_period, session, opens, closes, di, dj, results,
                   backendMode, backendLevel, deviations, raisedCalls, lateCalls,
                   inFlight, backendCalls, results2, failAt>>

\* result = method_fn(series): the query is sent and the caller blocks.
DetIssue ==
    /\ UNCHANGED <<genVars, evalVars>>
    /\ pcDet = "loop"
    /\ di <= Len(series_list)
    /\ dj <= Len(methods)
    /\ \E out \in Outcomes(Len(results) + 1) :
          /\ inFlight' = out
          /\ deviations' = IF backendMode = "up" /\ (out.raises \/ out.late)
                           THEN deviations - 1 ELSE deviations
    /\ backendCalls' = Append(backendCalls,
                              [series |-> di, method |-> methods[dj], done |-> FALSE])
    /\ pcDet' = "calling"
    /\ UNCHANGED <<series_list, known_period, session, opens, closes, di, dj, results,
                   backendMode, backendLevel, raisedCalls, lateCalls, results2,
                   status2, failAt>>

\* The second run: the same series list and the same backend answers, but
\* for the one call failAt, which raises.  It goes through the same code at
\* its own position.
SecondRun(out2) ==
    IF status2 = "running"
    THEN LET k2 == Len(results2)
             r2 == method_fn(methods[(k2 % Len(methods)) + 1],
                             series_list[(k2 \div Len(methods)) + 1], known_period, out2)
         IN IF r2.propagated
            THEN /\ status2' = "raised"
                 /\ UNCHANGED results2
            ELSE /\ results2' = Append(results2, r2.value)
                 /\ UNCHANGED status2
    ELSE UNCHANGED <<results2, status2>>

\* The call comes back; results.append(result); the loops advance.
Complete(out2) ==
    LET k == Len(results) + 1
        r == method_fn(methods[dj], series_list[di], known_period, inFlight)
    IN /\ pcDet = "calling"
       /\ IF r.propagated
          THEN /\ pcDet' = "raised"
               /\ UNCHANGED <<results, di, dj>>
          ELSE /\ results' = Append(results, r.value)
               /\ pcDet' = "loop"
               /\ IF dj < Len(methods)
                  THEN dj' = dj + 1 /\ UNCHANGED di
                  ELSE dj' = 1 /\ di' = di + 1
       /\ raisedCalls' = IF inFlight.raises THEN raisedCalls \cup {k} ELSE raisedCalls
       /\ lateCalls' = IF inFlight.late THEN lateCalls \cup {k} ELSE lateCalls
       /\ inFlight' = NoCall
       /\ backendCalls' = [backendCalls EXCEPT ![Len(backendCalls)].done = TRUE]
       /\ SecondRun(out2)
       /\ UNCHANGED <<series_list, known_period, session, opens, closes, backendMode,
                      backendLevel>>

DetReturn ==
    /\ UNCHANGED <<genVars, evalVars>>
    /\ Complete(inFlight)
    /\ UNCHANGED <<failAt, deviations>>

\* The same step, where the second run's call raises although the first run's
\* does not.
DetReturnSecondRaises ==
    /\ UNCHANGED <<genVars, evalVars>>
    /\ failAt = 0
    /\ deviations > 0
    /\ status2 = "running"
    /\ ~inFlight.raises
    /\ Complete([inFlight EXCEPT !.raises = TRUE])
    /\ deviations' = deviations - 1
    /\ failAt' = Len(results) + 1

\* conn.close(); return results
DetClose ==
    /\ UNCHANGED <<genVars, evalVars>>
    /\ pcDet = "loop"
    /\ di > Len(series_list)
    /\ session' = "closed"
    /\ closes' = closes + 1
    /\ pcDet' = "returned"
    /\ status2' = IF status2 = "running" THEN "returned" ELSE status2
    /\ UNCHANGED <<series_list, known_period, opens, di, dj, results, backendMode,
                   backendLevel, deviations, raisedCalls, lateCalls, inFlight,
                   backendCalls, results2, failAt>>

DetNext ==
    \/ DetConnect
    \/ DetLoad
    \/ DetLoadRaise
    \/ DetIssue
    \/ DetReturn
    \/ DetReturnSecondRaises
    \/ DetClose

\* ---------------------------------------------------------- specifications
\* The generator is not running.
GenOff ==
    /\ n_series_per_scenario = 0
    /\ params = SimulationParams(0, 0)
    /\ seed = 0
    /\ pcGen = "off"
    /\ rng = 0
    /\ all_series = <<>>
    /\ scenIdx = 1
    /\ scenSeries = <<>>
    /\ gi = 0
    /\ nDraws = 0
    /\ callNo = 1
    /\ outputs = <<<<>>, <<>>>>

\* The detection runner is not running.
DetOff ==
    /\ series_list = <<>>
    /\ known_period = DefaultKnownPeriod
    /\ pcDet = "off"
    /\ session = "none"
    /\ opens = 0
    /\ closes = 0
    /\ di = 1
    /\ dj = 1
    /\ results = <<>>
    /\ backendMode = "up"
    /\ backendLevel = 0
    /\ deviations = 0
    /\ raisedCalls = {}
    /\ lateCalls = {}
    /\ inFlight = NoCall
    /\ backendCalls = <<>>
    /\ results2 = <<>>
    /\ status2 = "running"
    /\ failAt = 0

\* The evaluator is not running.
EvalOff ==
    /\ y_true = <<>>
    /\ y_pred = <<>>
    /\ scores = <<>>
    /\ tieOrder = "kept"
    /\ pcMet = "off"
    /\ binary_metrics = <<>>
    /\ auc = <<>>
    /\ pcEval = "off"
    /\ results_df = <<>>
    /\ ground_truth_df = <<>>
    /\ eval_methods = <<>>
    /\ eval_scenarios = <<>>
    /\ mi = 1
    /\ si = 1
    /\ method_metrics = <<>>
    /\ scenario_metrics = <<>>
    /\ reordering = "same"
    /\ method_metrics2 = <<>>

\* generate_all_scenarios(n_series_per_scenario, params, seed), called twice.
GenInit ==
    /\ n_series_per_scenario \in 0..MaxNSeries
    /\ params \in {SimulationParams(np, per) : np \in (0 - 1)..MaxNPoints,
                                               per \in (0 - 1)..MaxPeriod}
    /\ seed \in 0..MaxSeed
    /\ pcGen = "idle"
    /\ rng = 0
    /\ all_series = <<>>
    /\ scenIdx = 1
    /\ scenSeries = <<>>
    /\ gi = 0
    /\ nDraws = 0
    /\ callNo = 1
    /\ outputs = <<<<>>, <<>>>>
    /\ DetOff
    /\ EvalOff

SpecGen == GenInit /\ [][GenNext]_vars

\* The series a generated list holds at position k when two series are
\* generated per scenario and n_points is 0 (empty values arrays).
PoolSeries(k) ==
    ScenarioGenerator(scenarios[((k - 1) \div 2) + 1], (k - 1) % 2,
                      SimulationParams(0, DefaultKnownPeriod), k).series

\* Slices of that list, of at most MaxSeries series.
SeriesLists ==
    {[k \in 1..len |-> PoolSeries(start + k - 1)] : len \in 0..MaxSeries, start \in {1, 5}}

\* run_all_methods(series_list, known_period), and the second run beside it.
DetInit ==
    /\ series_list \in SeriesLists
    /\ known_period = DefaultKnownPeriod
    /\ pcDet = "idle"
    /\ session = "none"
    /\ opens = 0
    /\ closes = 0
    /\ di = 1
    /\ dj = 1
    /\ results = <<>>
    /\ backendMode \in {"up", "down"}
    /\ backendLevel \in Levels
    /\ deviations = MaxDeviations
    /\ raisedCalls = {}
    /\ lateCalls = {}
    /\ inFlight = NoCall
    /\ backendCalls = <<>>
    /\ results2 = <<>>
    /\ status2 = "running"
    /\ failAt = 0
    /\ GenOff
    /\ EvalOff

SpecDet == DetInit /\ [][DetNext]_vars

\* ------------------------------------------------------- evaluation.py
\* One record of get_ground_truth.
get_ground_truth_row(sr) ==
    [series_id |-> sr.series_id, scenario |-> sr.scenario, true_period |-> sr.true_period,
     true_strength |-> sr.true_strength, is_seasonal |-> sr.seasonality_type # "none",
     seasonality_type |-> sr.seasonality_type]

get_ground_truth(list) == [k \in 1..Len(list) |-> get_ground_truth_row(list[k])]

\* ---- floats ----
\* A float is an exact fraction in lowest terms with a positive denominator
\* (kind "num"), an infinity (kind "inf", num its sign) or NaN.  kind "root"
\* (strength_correlation only) stands for sign(num) * sqrt(|num| / den).
RECURSIVE GCD(_, _)
GCD(a, b) == IF b = 0 THEN a ELSE GCD(b, a % b)

Abs(x) == IF x < 0 THEN 0 - x ELSE x

Sign(x) == IF x < 0 THEN 0 - 1 ELSE IF x > 0 THEN 1 ELSE 0

Rat(n, d) ==
    LET g == GCD(Abs(n), d)
    IN [kind |-> "num", num |-> n \div g, den |-> d \div g]

NaN == [kind |-> "nan", num |-> 0, den |-> 1]

Inf(sign) == [kind |-> "inf", num |-> sign, den |-> 1]

Zero == Rat(0, 1)

IsNaN(x) == x.kind = "nan"

IsInf(x) == x.kind = "inf"

FNeg(x) == [x EXCEPT !.num = 0 - x.num]

FAdd(x, y) ==
    IF IsNaN(x) \/ IsNaN(y) THEN NaN
    ELSE IF IsInf(x) /\ IsInf(y) THEN (IF x.num = y.num THEN x ELSE NaN)
    ELSE IF IsInf(x) THEN x
    ELSE IF IsInf(y) THEN y
    ELSE Rat(x.num * y.den + y.num * x.den, x.den * y.den)

FSub(x, y) == FAdd(x, FNeg(y))

\* Products are reduced crosswise before they are multiplied out.
FMul(x, y) ==
    IF IsNaN(x) \/ IsNaN(y) THEN NaN
    ELSE IF IsInf(x) \/ IsInf(y)
         THEN (IF x.num = 0 \/ y.num = 0 THEN NaN ELSE Inf(Sign(x.num) * Sign(y.num)))
    ELSE LET a == Rat(x.num, y.den)
             b == Rat(y.num, x.den)
         IN Rat(a.num * b.num, a.den * b.den)

\* x / y: 0.0 / 0.0 is NaN, any other x / 0.0 an infinity.
FDiv(x, y) ==
    IF IsNaN(x) \/ IsNaN(y) \/ (IsInf(x) /\ IsInf(y)) THEN NaN
    ELSE IF IsInf(y) THEN Zero
    ELSE IF y.num = 0 THEN (IF x.num = 0 THEN NaN ELSE Inf(Sign(x.num)))
    ELSE IF IsInf(x) THEN Inf(x.num * Sign(y.num))
    ELSE IF y.num > 0 THEN FMul(x, [kind |-> "num", num |-> y.den, den |-> y.num])
    ELSE FMul(x, [kind |-> "num", num |-> 0 - y.den, den |-> 0 - y.num])

FAbs(x) == [x EXCEPT !.num = Abs(x.num)]

\* x < y and x > y; every comparison with NaN is False.
FLess(x, y) ==
    IF IsNaN(x) \/ IsNaN(y) THEN FALSE
    ELSE IF IsInf(x) THEN x.num < 0 /\ ~(IsInf(y) /\ y.num < 0)
    ELSE IF IsInf(y) THEN y.num > 0
    ELSE x.num * y.den < y.num * x.den

FGreater(x, y) == FLess(y, x)

\* np.sum of an integer array.
RECURSIVE np_sum(_)
np_sum(a) == IF a = <<>> THEN 0 ELSE Head(a) + np_sum(Tail(a))

\* The sum of a float array.
RECURSIVE FSum(_)
FSum(a) == IF a = <<>> THEN Zero ELSE FAdd(Head(a), FSum(Tail(a)))

\* np.mean / Series.mean: NaN for an empty array.
FMean(a) == IF a = <<>> THEN NaN ELSE FDiv(FSum(a), Rat(Len(a), 1))

\* np.cumsum
cumsum(a) == [k \in 1..Len(a) |-> np_sum(SubSeq(a, 1, k))]

\* ---- compute_binary_metrics ----
CountBoth_pred_only(yt, yp, t, p) ==
    np_sum([k \in 1..Len(yt) |-> IF yp[k] = p THEN 1 ELSE 0])

\* np.sum((y_true == t) & (y_pred == p))
CountBoth(yt, yp, t, p) ==
    np_sum([k \in 1..Len(yt) |-> IF yt[k] = t /\ yp[k] = p THEN 1 ELSE 0])

compute_binary_metrics_positives(yt, yp) ==
    LET tp == CountBoth(yt, yp, 1, 1)
        tn == CountBoth(yt, yp, 0, 0)
        fp == CountBoth(yt, yp, 0, 1)
        fn == CountBoth(yt, yp, 1, 0)
        sensitivity == IF tp + fn > 0 THEN Rat(tp, tp + fn) ELSE Zero
        specificity == IF tn + fp > 0 THEN Rat(tn, tn + fp) ELSE Zero
        precision == IF tp + fp > 0 THEN Rat(tp, tp + fp) ELSE Zero
        f1 == IF FGreater(FAdd(precision, sensitivity), Zero)
              THEN FDiv(FMul(FMul(Rat(2, 1), precision), sensitivity),
                        FAdd(precision, sensitivity))
              ELSE Zero
        accuracy == IF tp + fn > 0 THEN Rat(tp + tn, tp + fn) ELSE Zero
    IN [sensitivity |-> sensitivity, specificity |-> specificity,
        precision |-> precision, f1_score |-> f1, accuracy |-> accuracy]

compute_binary_metrics(yt, yp) ==
    LET tp == CountBoth(yt, yp, 1, 1)
        tn == CountBoth(yt, yp, 0, 0)
        fp == CountBoth(yt, yp, 0, 1)
        fn == CountBoth(yt, yp, 1, 0)
        sensitivity == IF tp + fn > 0 THEN Rat(tp, tp + fn) ELSE Zero
        specificity == IF tn + fp > 0 THEN Rat(tn, tn + fp) ELSE Zero
        precision == IF tp + fp > 0 THEN Rat(tp, tp + fp) ELSE Zero
        f1 == IF FGreater(FAdd(precision, sensitivity), Zero)
              THEN FDiv(FMul(FMul(Rat(2, 1), precision), sensitivity),
                        FAdd(precision, sensitivity))
              ELSE Zero
        accuracy == IF Len(yt) > 0 THEN Rat(tp + tn, Len(yt)) ELSE Zero
    IN [sensitivity |-> sensitivity, specificity |-> specificity,
        precision |-> precision, f1_score |-> f1, accuracy |-> accuracy]

\* ---- compute_auc_roc ----
\* np.argsort(scores): the indices in ascending order of score.  Which of two
\* equal scores comes first is the sort's choice: insertion sort keeps the
\* input order, the vectorised sorts do not.
argsort(sc) ==
    LET n == Len(sc)
        Before(j, i) == \/ sc[j] < sc[i]
                        \/ sc[j] = sc[i] /\ (IF tieOrder = "kept" THEN j < i ELSE j > i)
    IN [k \in 1..n |-> CHOOSE i \in 1..n : Cardinality({j \in 1..n : Before(j, i)}) = k - 1]

\* a[::-1]
Reversed(a) == [k \in 1..Len(a) |-> a[Len(a) + 1 - k]]

order_ascending(sc) == argsort(sc)

\* order = np.argsort(scores)[::-1]
order_descending(sc) == Reversed(argsort(sc))

\* np.trapezoid(y, x): sum of (x[k+1] - x[k]) * (y[k+1] + y[k]) / 2.
trapezoid(y, x) ==
    FSum([k \in 1..(Len(x) - 1) |->
             FDiv(FMul(FSub(x[k + 1], x[k]), FAdd(y[k + 1], y[k])), Rat(2, 1))])

Half == Rat(1, 2)

RocCurve(yt, sc) ==
    LET order == order_descending(sc)
        y_sorted == [k \in 1..Len(order) |-> yt[order[k]]]
        n_pos == np_sum(yt)
        n_neg == Len(yt) - n_pos
        hits == cumsum(y_sorted)
        misses == cumsum([k \in 1..Len(y_sorted) |-> 1 - y_sorted[k]])
    IN [tpr |-> <<Zero>> \o [k \in 1..Len(hits) |-> FDiv(Rat(hits[k], 1), Rat(n_pos, 1))],
        fpr |-> <<Zero>> \o [k \in 1..Len(misses) |-> FDiv(Rat(misses[k], 1), Rat(n_neg, 1))]]

compute_auc_roc_unguarded(yt, sc) ==
    LET curve == RocCurve(yt, sc)
    IN trapezoid(curve.tpr, curve.fpr)

compute_auc_roc(yt, sc) ==
    LET n_pos == np_sum(yt)
        n_neg == Len(yt) - n_pos
        curve == RocCurve(yt, sc)
    IN IF n_pos = 0 \/ n_neg = 0 THEN Half
       ELSE trapezoid(curve.tpr, curve.fpr)

\* ---- evaluate_method, evaluate_scenario ----
\* One row of left.merge(right, on=["series_id", "scenario"]): the columns of
\* both sides, is_seasonal with the suffixes _pred and _true.
MergedRow(l, r) ==
    [series_id |-> l.series_id, scenario |-> l.scenario, method |-> l.method,
     detected_period |-> l.detected_period, confidence |-> l.confidence,
     strength |-> l.strength, is_seasonal_pred |-> l.is_seasonal,
     has_error |-> l.has_error, true_period |-> r.true_period,
     true_strength |-> r.true_strength, is_seasonal_true |-> r.is_seasonal]

\* The inner join: the left rows in their order, each with its matching right
\* rows in theirs.
RECURSIVE merge(_, _)
merge(left, right) ==
    IF left = <<>> THEN <<>>
    ELSE LET l == Head(left)
             Matches(r) == r.series_id = l.series_id /\ r.scenario = l.scenario
             hits == SelectSeq(right, Matches)
         IN [k \in 1..Len(hits) |-> MergedRow(l, hits[k])] \o merge(Tail(left), right)

\* .astype(int) of a boolean column.
AsInt(b) == IF b THEN 1 ELSE 0

\* Confidences and strengths are in tenths, true_strength is a fraction.
Tenths(x) == Rat(x, 10)

AsFloat(f) == Rat(f.num, f.den)

\* The sum of squared deviations from the mean, and of their products: np.std
\* is positive exactly when the first is.
Deviations(x) == [k \in 1..Len(x) |-> FSub(x[k], FMean(x))]

SumProducts(dx, dy) == FSum([k \in 1..Len(dx) |-> FMul(dx[k], dy[k])])

std_positive(x) == FGreater(SumProducts(Deviations(x), Deviations(x)), Zero)

\* np.corrcoef(x, y)[0, 1] = c / sqrt(vx * vy), kept as sign(c) * sqrt(c^2 / (vx * vy)).
corrcoef(x, y) ==
    LET c == SumProducts(Deviations(x), Deviations(y))
        vx == SumProducts(Deviations(x), Deviations(x))
        vy == SumProducts(Deviations(y), Deviations(y))
        sq == FDiv(FMul(c, c), FMul(vx, vy))
    IN [kind |-> "root", num |-> (IF c.num < 0 THEN 0 - sq.num ELSE sq.num),
        den |-> sq.den]

MethodMetrics(method, bm, period_mae, period_mape, strength_correlation, auc_roc) ==
    [method |-> method, sensitivity |-> bm.sensitivity, specificity |-> bm.specificity,
     precision |-> bm.precision, f1_score |-> bm.f1_score, accuracy |-> bm.accuracy,
     period_mae |-> period_mae, period_mape |-> period_mape,
     strength_correlation |-> strength_correlation, auc_roc |-> auc_roc]

\* seasonal_mask = (merged["is_seasonal_true"]) & (merged["detected_period"].notna())
period_mask_predicted(row) == row.is_seasonal_pred /\ row.detected_period # None

period_mask(row) == row.is_seasonal_true /\ row.detected_period # None

\* seasonal_mask = merged["is_seasonal_true"]
strength_mask_all(row) == TRUE

strength_mask(row) == row.is_seasonal_true

PeriodError_signed(row) == Rat(row.detected_period[1] - row.true_period, 1)

\* |pred - true| of a merged row with a detected period.
PeriodError(row) == FAbs(Rat(row.detected_period[1] - row.true_period, 1))

evaluate_method(rdf, gdf, method) ==
    LET OfMethod(r) == r.method = method
        method_df == SelectSeq(rdf, OfMethod)
        merged == merge(method_df, gdf)
        yt == [k \in 1..Len(merged) |-> AsInt(merged[k].is_seasonal_true)]
        yp == [k \in 1..Len(merged) |-> AsInt(merged[k].is_seasonal_pred)]
        sc == [k \in 1..Len(merged) |-> merged[k].confidence]
        periods == SelectSeq(merged, period_mask)
        period_mae == IF Len(periods) > 0
                      THEN FMean([k \in 1..Len(periods) |-> PeriodError(periods[k])])
                      ELSE NaN
        period_mape == IF Len(periods) > 0
                       THEN FMul(FMean([k \in 1..Len(periods) |->
                                           FDiv(PeriodError(periods[k]),
                                                Rat(periods[k].true_period, 1))]),
                                 Rat(100, 1))
                       ELSE NaN
        seasonal == SelectSeq(merged, strength_mask)
        true_strength == [k \in 1..Len(seasonal) |-> AsFloat(seasonal[k].true_strength)]
        pred_strength == [k \in 1..Len(seasonal) |-> Tenths(seasonal[k].strength)]
        strength_corr == IF Len(seasonal) > 1
                         THEN IF std_positive(true_strength) /\ std_positive(pred_strength)
                              THEN corrcoef(true_strength, pred_strength)
                              ELSE NaN
                         ELSE NaN
    IN MethodMetrics(method, compute_binary_metrics(yt, yp), period_mae, period_mape,
                     strength_corr, compute_auc_roc(yt, sc))

ScenarioMetrics(scenario, n_series, detection_rate, mean_confidence, mean_strength, period_accuracy) ==
    [scenario |-> scenario, n_series |-> n_series, detection_rate |-> detection_rate,
     mean_confidence |-> mean_confidence, mean_strength |-> mean_strength,
     period_accuracy |-> period_accuracy]

\* np.abs(detected - true) / true < 0.1 of a merged row; False for a missing
\* detected period (the comparison with NaN).
within_10pct(row) ==
    /\ row.detected_period # None
    /\ FLess(FDiv(PeriodError(row), Rat(row.true_period, 1)), Rat(1, 10))

\* merged["true_period"].iloc[0] raises IndexError when the join is empty.
evaluate_scenario(rdf, gdf, scenario, method) ==
    LET InPair(r) == r.scenario = scenario /\ r.method = method
        scenario_df == SelectSeq(rdf, InPair)
        InScenario(g) == g.scenario = scenario
        gt_df == SelectSeq(gdf, InScenario)
        n == Len(scenario_df)
        detection_rate == FMean([k \in 1..n |-> Rat(AsInt(scenario_df[k].is_seasonal), 1)])
        mean_confidence == FMean([k \in 1..n |-> Tenths(scenario_df[k].confidence)])
        mean_strength == FMean([k \in 1..n |-> Tenths(scenario_df[k].strength)])
        merged == merge(scenario_df, gt_df)
        period_accuracy ==
            IF merged[1].true_period > 0
               /\ \E k \in 1..Len(merged) : merged[k].detected_period # None
            THEN FMean([k \in 1..Len(merged) |-> Rat(AsInt(within_10pct(merged[k])), 1)])
            ELSE NaN
    IN IF merged = <<>>
       THEN [raised |-> TRUE, value |-> <<>>]
       ELSE [raised |-> FALSE,
             value |-> ScenarioMetrics(scenario, n, detection_rate, mean_confidence,
                                       mean_strength, period_accuracy)]

\* Series.unique(): the values in order of first appearance.
unique(col) ==
    LET First == {k \in 1..Len(col) : \A j \in 1..(k - 1) : col[j] # col[k]}
    IN [r \in 1..Cardinality(First) |->
           col[CHOOSE k \in First : Cardinality({j \in First : j < k}) = r - 1]]

\* ---- the two metric functions called on arrays ----
MaxLen == 3
MaxScore == 2

RECURSIVE Arrays(_, _)
Arrays(n, S) ==
    IF n = 0 THEN {<<>>}
    ELSE {Append(a, x) : a \in Arrays(n - 1, S), x \in S}

MetBinary ==
    /\ UNCHANGED <<genVars, detVars>>
    /\ pcMet = "idle"
    /\ binary_metrics' = compute_binary_metrics(y_true, y_pred)
    /\ pcMet' = "binary"
    /\ UNCHANGED <<y_true, y_pred, scores, tieOrder, auc, pcEval, results_df,
                   ground_truth_df, eval_methods, eval_scenarios, mi, si, method_metrics,
                   scenario_metrics, reordering, method_metrics2>>

MetAuc ==
    /\ UNCHANGED <<genVars, detVars>>
    /\ pcMet = "binary"
    /\ auc' = compute_auc_roc(y_true, scores)
    /\ pcMet' = "done"
    /\ UNCHANGED <<y_true, y_pred, scores, tieOrder, binary_metrics, pcEval, results_df,
                   ground_truth_df, eval_methods, eval_scenarios, mi, si, method_metrics,
                   scenario_metrics, reordering, method_metrics2>>

MetNext ==
    \/ MetBinary
    \/ MetAuc

\* compute_binary_metrics(y_true, y_pred) and compute_auc_roc(y_true, scores)
\* on arrays of one length; scores are in tenths.
MetInit ==
    /\ \E n \in 0..MaxLen :
          /\ y_true \in Arrays(n, {0, 1})
          /\ y_pred \in Arrays(n, {0, 1})
          /\ scores \in Arrays(n, 0..MaxScore)
    /\ tieOrder \in {"kept", "reversed"}
    /\ pcMet = "idle"
    /\ binary_metrics = <<>>
    /\ auc = <<>>
    /\ pcEval = "off"
    /\ results_df = <<>>
    /\ ground_truth_df = <<>>
    /\ eval_methods = <<>>
    /\ eval_scenarios = <<>>
    /\ mi = 1
    /\ si = 1
    /\ method_metrics = <<>>
    /\ scenario_metrics = <<>>
    /\ reordering = "same"
    /\ method_metrics2 = <<>>
    /\ GenOff
    /\ DetOff

SpecMetrics == MetInit /\ [][MetNext]_vars

\* ---- evaluate_all as steps ----
\* The inputs of the second evaluation: the same rows in another order.
Permuted(rows) ==
    IF reordering = "reversed" THEN Reversed(rows)
    ELSE IF rows = <<>> THEN rows
    ELSE Append(Tail(rows), Head(rows))

Column(df, name) == [k \in 1..Len(df) |-> df[k][name]]

\* results_df = results_to_dataframe(results); ground_truth_df =
\* get_ground_truth(series_list); methods = results_df["method"].unique().
\* The frame of an empty results list has no columns: KeyError.
EvalCall ==
    /\ UNCHANGED <<genVars, detVars>>
    /\ pcEval = "idle"
    /\ results_df' = results_to_dataframe(results)
    /\ ground_truth_df' = get_ground_truth(series_list)
    /\ IF results = <<>>
       THEN /\ pcEval' = "raised"
            /\ UNCHANGED <<eval_methods, eval_scenarios>>
       ELSE /\ pcEval' = "methods"
            /\ eval_methods' = unique(Column(results_to_dataframe(results), "method"))
            /\ eval_scenarios' = unique(Column(results_to_dataframe(results), "scenario"))
    /\ mi' = 1
    /\ si' = 1
    /\ method_metrics' = <<>>
    /\ scenario_metrics' = <<>>
    /\ method_metrics2' = <<>>
    /\ UNCHANGED <<y_true, y_pred, scores, tieOrder, pcMet, binary_metrics, auc, reordering>>

\* for method in methods: method_metrics.append(evaluate_method(...)); beside
\* it, the same method evaluated on the permuted inputs.  The frame of an
\* empty series list has no columns: the merge on series_id and scenario in
\* evaluate_method raises KeyError.
EvalMethod ==
    /\ UNCHANGED <<genVars, detVars>>
    /\ pcEval = "methods"
    /\ mi <= Len(eval_methods)
    /\ IF ground_truth_df = <<>>
       THEN /\ pcEval' = "raised"
            /\ UNCHANGED <<method_metrics, method_metrics2, mi>>
       ELSE /\ method_metrics' = Append(method_metrics,
                    evaluate_method(results_df, ground_truth_df, eval_methods[mi]))
            /\ method_metrics2' = Append(method_metrics2,
                    evaluate_method(Permuted(results_df), Permuted(ground_truth_df),
                                    eval_methods[mi]))
            /\ mi' = mi + 1
            /\ UNCHANGED pcEval
    /\ UNCHANGED <<y_true, y_pred, scores, tieOrder, pcMet, binary_metrics, auc,
                   results_df, ground_truth_df, eval_methods, eval_scenarios, si,
                   scenario_metrics, reordering>>

\* method_df = pd.DataFrame(method_metrics); scenarios = results_df["scenario"].unique()
EvalMethodsDone ==
    /\ UNCHANGED <<genVars, detVars>>
    /\ pcEval = "methods"
    /\ mi > Len(eval_methods)
    /\ pcEval' = "scenarios"
    /\ mi' = 1
    /\ si' = 1
    /\ UNCHANGED <<y_true, y_pred, scores, tieOrder, pcMet, binary_metrics, auc,
                   results_df, ground_truth_df, eval_methods, eval_scenarios,
                   method_metrics, scenario_metrics, reordering, method_metrics2>>

\* for scenario in scenarios: for method in methods:
\*     scenario_metrics.append(evaluate_scenario(...))
EvalScenario ==
    /\ UNCHANGED <<genVars, detVars>>
    /\ pcEval = "scenarios"
    /\ si <= Len(eval_scenarios)
    /\ LET r == evaluate_scenario(results_df, ground_truth_df, eval_scenarios[si],
                                  eval_methods[mi])
       IN IF r.raised
          THEN /\ pcEval' = "raised"
               /\ UNCHANGED <<scenario_metrics, mi, si>>
          ELSE /\ scenario_metrics' = Append(scenario_metrics,
                                             [method |-> eval_methods[mi]] @@ r.value)
               /\ IF mi < Len(eval_methods)
                  THEN mi' = mi + 1 /\ UNCHANGED si
                  ELSE mi' = 1 /\ si' = si + 1
               /\ UNCHANGED pcEval
    /\ UNCHANGED <<y_true, y_pred, scores, tieOrder, pcMet, binary_metrics, auc,
                   results_df, ground_truth_df, eval_methods, eval_scenarios,
                   method_metrics, reordering, method_metrics2>>

\* return {"method_metrics": ..., "scenario_metrics": ..., "results": ..., "ground_truth": ...}
EvalReturn ==
    /\ UNCHANGED <<genVars, detVars>>
    /\ pcEval = "scenarios"
    /\ si > Len(eval_scenarios)
    /\ pcEval' = "returned"
    /\ UNCHANGED <<y_true, y_pred, scores, tieOrder, pcMet, binary_metrics, auc,
                   results_df, ground_truth_df, eval_methods, eval_scenarios, mi, si,
                   method_metrics, scenario_metrics, reordering, method_metrics2>>

EvalNext ==
    \/ EvalCall
    \/ EvalMethod
    \/ EvalMethodsDone
    \/ EvalScenario
    \/ EvalReturn

\* ---- the inputs of evaluate_all: a completed run ----
MaxEvalSeries == 3

\* params.period of the evaluated series; known_period stays at its default.
EvalPeriods == {DefaultKnownPeriod - 1, DefaultKnownPeriod}

\* The series at position k of a list generated with two series per scenario:
\* empty values arrays, and true strengths in tenths.
EvalSeries(k, period) ==
    LET s == ScenarioGenerator(scenarios[((k - 1) \div 2) + 1], (k - 1) % 2,
                               SimulationParams(0, period), k).series
    IN [s EXCEPT !.true_strength =
            IF s.scenario = "no_seasonal" THEN ZeroStrength
            ELSE IF s.scenario = "strong_seasonal" THEN Frac(9, 10)
            ELSE IF s.scenario = "weak_seasonal" THEN Frac(1 + s.series_id, 10)
            ELSE Frac(7 - s.series_id, 10)]

EvalStarts == {1, 3, 5}

EvalSeriesLists ==
    {[k \in 1..len |-> EvalSeries(start + k - 1, period)] :
        len \in 0..MaxEvalSeries, start \in EvalStarts, period \in EvalPeriods}

\* Which method's calls all fail in the run ("": none).
FailedChoices == {""} \cup {methods[j] : j \in 1..Len(methods)}

\* What run_all_methods returns for the list when the backend answers call k
\* at level (level + stride * k) and raises in every call of `failed`.
RunResults(list, level, stride, failed) ==
    [k \in 1..(Len(methods) * Len(list)) |->
        LET m == methods[((k - 1) % Len(methods)) + 1]
        IN method_fn(m, list[((k - 1) \div Len(methods)) + 1], DefaultKnownPeriod,
                     [raises |-> m = failed, late |-> FALSE,
                      level |-> (level + stride * k) % Cardinality(Levels)]).value]

\* The answers change from call to call (stride 1), or every call is answered
\* alike, as clearly seasonal (stride 0).
Strides(level) == IF level = 2 THEN {0, 1} ELSE {1}

\* The series lists a caller may hand to evaluate_all beside the results of a
\* run over `list`: the list itself, or the list without its last series.
GivenLists(list) ==
    {list} \cup (IF list = <<>> THEN {} ELSE {SubSeq(list, 1, Len(list) - 1)})

\* evaluate_all(results, series_list) after run_all_methods has returned.
EvalInit ==
    /\ known_period = DefaultKnownPeriod
    /\ backendMode = "up"
    /\ backendLevel \in Levels
    /\ \E run_list \in EvalSeriesLists, stride \in Strides(backendLevel),
          failed \in FailedChoices :
          /\ results = RunResults(run_list, backendLevel, stride, failed)
          /\ raisedCalls = {k \in 1..(Len(methods) * Len(run_list)) :
                               methods[((k - 1) % Len(methods)) + 1] = failed}
          /\ series_list \in GivenLists(run_list)
    /\ results2 = results
    /\ pcDet = "returned"
    /\ session = "closed"
    /\ opens = 1
    /\ closes = 1
    /\ di = (Len(results) \div Len(methods)) + 1
    /\ dj = 1
    /\ deviations = 0
    /\ lateCalls = {}
    /\ inFlight = NoCall
    /\ backendCalls = [k \in 1..Len(results) |->
                          [series |-> ((k - 1) \div Len(methods)) + 1,
                           method |-> results[k].method, done |-> TRUE]]
    /\ status2 = "returned"
    /\ failAt = 0
    /\ GenOff
    /\ y_true = <<>>
    /\ y_pred = <<>>
    /\ scores = <<>>
    /\ tieOrder \in {"kept", "reversed"}
    /\ pcMet = "off"
    /\ binary_metrics = <<>>
    /\ auc = <<>>
    /\ pcEval = "idle"
    /\ results_df = <<>>
    /\ ground_truth_df = <<>>
    /\ eval_methods = <<>>
    /\ eval_scenarios = <<>>
    /\ mi = 1
    /\ si = 1
    /\ method_metrics = <<>>
    /\ scenario_metrics = <<>>
    /\ reordering \in {"reversed", "rotated"}
    /\ method_metrics2 = <<>>

SpecEval == EvalInit /\ [][EvalNext]_vars

\* ---- the benchmark run of evaluation.py's __main__ ----
MaxMainSeries == 1

\* series = generate_all_scenarios(...) has returned, and
\* results = run_all_methods(series, ...) has returned: the statement after
\* each call runs only then.
SeriesReady_streaming == pcGen \in {"scenario", "returned"} /\ all_series # <<>>

SeriesReady == pcGen = "returned"

ResultsReady == pcDet = "returned"

\* results = run_all_methods(series, known_period=12.0)
MainDetect ==
    /\ UNCHANGED <<genVars, evalVars>>
    /\ SeriesReady
    /\ pcDet = "waiting"
    /\ series_list' = all_series
    /\ pcDet' = "idle"
    /\ UNCHANGED <<known_period, session, opens, closes, di, dj, results, backendMode,
                   backendLevel, deviations, raisedCalls, lateCalls, inFlight,
                   backendCalls, results2, status2, failAt>>

\* evaluation = evaluate_all(results, series)
MainEvaluate ==
    /\ UNCHANGED <<genVars, detVars>>
    /\ ResultsReady
    /\ pcEval = "waiting"
    /\ pcEval' = "idle"
    /\ UNCHANGED <<y_true, y_pred, scores, tieOrder, pcMet, binary_metrics, auc,
                   results_df, ground_truth_df, eval_methods, eval_scenarios, mi, si,
                   method_metrics, scenario_metrics, reordering, method_metrics2>>

MainNext ==
    \/ GenCall
    \/ GenIter
    \/ GenIterRaise
    \/ GenScenarioDone
    \/ GenReturn
    \/ MainDetect
    \/ DetConnect
    \/ DetLoad
    \/ DetLoadRaise
    \/ DetIssue
    \/ DetReturn
    \/ DetClose
    \/ MainEvaluate
    \/ EvalCall
    \/ EvalMethod
    \/ EvalMethodsDone
    \/ EvalScenario
    \/ EvalReturn

\* params = SimulationParams(n_points, period=12.0, noise_sd); the run is
\* modelled for series without noise (noise_sd = 0.0), whose true strengths
\* are exactly 1, and for a backend that is down, or up without deviations.
MainParams(np) == [SimulationParams(np, DefaultKnownPeriod) EXCEPT !.noise_sd = 0]

MainInit ==
    /\ n_series_per_scenario \in 0..MaxMainSeries
    /\ params \in {MainParams(np) : np \in {0 - 1, 1}}
    /\ seed \in 0..MaxSeed
    /\ pcGen = "idle"
    /\ rng = 0
    /\ all_series = <<>>
    /\ scenIdx = 1
    /\ scenSeries = <<>>
    /\ gi = 0
    /\ nDraws = 0
    /\ callNo = 1
    /\ outputs = <<<<>>, <<>>>>
    /\ series_list = <<>>
    /\ known_period = DefaultKnownPeriod
    /\ pcDet = "waiting"
    /\ session = "none"
    /\ opens = 0
    /\ closes = 0
    /\ di = 1
    /\ dj = 1
    /\ results = <<>>
    /\ backendMode \in {"up", "down"}
    /\ backendLevel \in Levels
    /\ deviations = 0
    /\ raisedCalls = {}
    /\ lateCalls = {}
    /\ inFlight = NoCall
    /\ backendCalls = <<>>
    /\ results2 = <<>>
    /\ status2 = "running"
    /\ failAt = 0
    /\ y_true = <<>>
    /\ y_pred = <<>>
    /\ scores = <<>>
    /\ tieOrder = "kept"
    /\ pcMet = "off"
    /\ binary_metrics = <<>>
    /\ auc = <<>>
    /\ pcEval = "waiting"
    /\ results_df = <<>>
    /\ ground_truth_df = <<>>
    /\ eval_methods = <<>>
    /\ eval_scenarios = <<>>
    /\ mi = 1
    /\ si = 1
    /\ method_metrics = <<>>
    /\ scenario_metrics = <<>>
    /\ reordering = "reversed"
    /\ method_metrics2 = <<>>

SpecMain == MainInit /\ [][MainNext]_vars

\* ------------------------------------------------------------- claims
RecordedCalls(calls) == {k \in calls : k <= Len(results)}

\* C1: whenever the backend raised in a call, whatever the method, the call's
\* result has detected_period None, confidence 0.0, strength 0.0, is_seasonal
\* False and an extra map with the key "error".
C1_FailedCallResult ==
    \A k \in RecordedCalls(raisedCalls) :
        /\ results[k].detected_period = None
        /\ results[k].confidence = 0
        /\ results[k].strength = 0
        /\ ~results[k].is_seasonal
        /\ HasKey(results[k].extra, "error")

\* C2: with a backend that raises on every call, run_all_methods is not
\* aborted by any detection call, and it returns 7 * len(series_list) results,
\* each with has_error True and is_seasonal False in results_to_dataframe.
C2_BackendDownAllErrors ==
    LET df == results_to_dataframe(results)
    IN backendMode = "down" =>
          /\ pcDet = "raised" => raisedCalls = {}
          /\ \A k \in 1..Len(df) : df[k].has_error /\ ~df[k].is_seasonal
          /\ pcDet = "returned" => Len(df) = 7 * Len(series_list)

C2_Witness ==
    /\ backendMode = "down"
    /\ pcDet = "returned"
    /\ Len(series_list) >= 1
    /\ Len(results) >= 7

\* C3: between two runs over the same series list whose backend answers
\* differ only in that one call raises in the second run, the second run is
\* not aborted, both result lists have the same length, and every result other
\* than the one of that call is identical and at the same position.
C3_FailureIsolated ==
    /\ \A k \in 1..Len(results) :
          (k <= Len(results2) /\ k # failAt) => results2[k] = results[k]
    /\ status2 = "raised" => (pcDet = "raised" /\ failAt = 0)
    /\ pcDet = "returned" => (status2 = "returned" /\ Len(results2) = Len(results))

C3_Witness ==
    /\ pcDet = "returned"
    /\ failAt # 0
    /\ failAt < Len(results)
    /\ results2[failAt] # results[failAt]
    /\ HasKey(results2[failAt].extra, "error")

\* C4: run_all_methods returns exactly one result per (series, method) pair
\* of the seven methods: for every series and every method exactly one result
\* carries that series' (series_id, scenario) and that method, and no result
\* belongs to no pair.
C4_OneResultPerPair ==
    LET Fixed == {"fft", "acf", "variance_strength", "spectral_strength",
                  "wavelet_strength", "classification", "change_detection"}
        Of(i, m) == {k \in 1..Len(results) :
                        /\ results[k].series_id = series_list[i].series_id
                        /\ results[k].scenario = series_list[i].scenario
                        /\ results[k].method = m}
    IN pcDet = "returned" =>
          /\ \A i \in 1..Len(series_list) : \A m \in Fixed : Cardinality(Of(i, m)) = 1
          /\ \A k \in 1..Len(results) :
                /\ results[k].method \in Fixed
                /\ \E i \in 1..Len(series_list) :
                      /\ results[k].series_id = series_list[i].series_id
                      /\ results[k].scenario = series_list[i].scenario
          /\ Len(results) = 7 * Len(series_list)

C4_Witness ==
    /\ pcDet = "returned"
    /\ Len(series_list) = 2
    /\ series_list[1].scenario = series_list[2].scenario
    /\ Len(results) = 14

\* C5: the session is opened once before the first backend call and closed
\* once after the last; no call is in flight without an open session; and the
\* session is closed on every path on which run_all_methods finishes.
C5_SessionLifecycle ==
    /\ opens <= 1
    /\ closes <= 1
    /\ pcDet \in {"loop", "calling"} => (session = "open" /\ opens = 1 /\ closes = 0)
    /\ pcDet \in {"returned", "raised"} => (session = "closed" /\ opens = 1 /\ closes = 1)

\* C6: a call that ran longer than the timeout is recorded like a backend
\* exception: is_seasonal False, confidence 0.0 and an extra map with "error".
C6_TimeoutIsFailure ==
    \A k \in RecordedCalls(lateCalls) :
        /\ ~results[k].is_seasonal
        /\ results[k].confidence = 0
        /\ HasKey(results[k].extra, "error")

\* C7: for n >= 1 generate_all_scenarios returns 7n series, grouped by scenario
\* in the order strong, weak, no, trending, variable, emerging, fading, with n
\* consecutive series per scenario.
C7_SevenTimesN ==
    LET Order == <<"strong_seasonal", "weak_seasonal", "no_seasonal", "trending_seasonal",
                   "variable_amplitude", "emerging_seasonal", "fading_seasonal">>
        n == n_series_per_scenario
    IN (pcGen = "returned" /\ n >= 1) =>
          /\ Len(all_series) = 7 * n
          /\ \A k \in 1..Len(all_series) :
                all_series[k].scenario = Order[((k - 1) \div n) + 1]

C7_Witness ==
    /\ pcGen = "returned"
    /\ n_series_per_scenario = 2
    /\ params.n_points > 0
    /\ Len(all_series) = 14

\* C8: two calls of generate_all_scenarios with the same arguments return
\* series that are identical, values arrays and ground-truth fields, element
\* for element.
C8_Deterministic ==
    (callNo = 2 /\ pcGen = "returned") => outputs[2] = outputs[1]

C8_Witness ==
    /\ callNo = 2
    /\ pcGen = "returned"
    /\ Len(outputs[2]) >= 7
    /\ Len(outputs[2][1].values) >= 2

\* C9: every generated series of scenario no_seasonal has true_period 0,
\* true_strength 0 and ground truth is_seasonal False; every series of another
\* scenario has true_period = params.period and ground truth is_seasonal True.
C9_GroundTruth ==
    \A list \in {all_series, scenSeries, outputs[1], outputs[2]} :
        \A k \in 1..Len(list) :
            IF list[k].scenario = "no_seasonal"
            THEN /\ list[k].true_period = 0
                 /\ list[k].true_strength.num = 0
                 /\ ~get_ground_truth(list)[k].is_seasonal
            ELSE /\ list[k].true_period = params.period
                 /\ get_ground_truth(list)[k].is_seasonal

C9_Witness ==
    /\ pcGen = "returned"
    /\ params.period > 0
    /\ \E k \in 1..Len(all_series) : all_series[k].scenario = "no_seasonal"
    /\ \E k \in 1..Len(all_series) : all_series[k].scenario = "fading_seasonal"

\* C10: params with a non-positive n_points or a non-positive period are
\* rejected before generation begins: no random number is drawn, no series is
\* generated and generate_all_scenarios does not return.
C10_InvalidParamsRejected ==
    (params.n_points <= 0 \/ params.period <= 0) =>
        /\ nDraws = 0
        /\ scenSeries = <<>>
        /\ all_series = <<>>
        /\ pcGen # "returned"
\* C11: compute_auc_roc returns exactly 0.5 whenever the labels hold no
\* positive or no negative sample, the empty input included, whatever the
\* scores; the value is a number, not NaN.
C11_SingleClassHalf ==
    (pcMet = "done" /\ ((\A k \in 1..Len(y_true) : y_true[k] = 0)
                        \/ (\A k \in 1..Len(y_true) : y_true[k] = 1)))
        => (auc = Half /\ ~IsNaN(auc))

C11_Witness ==
    /\ pcMet = "done"
    /\ Len(y_true) >= 2
    /\ \A k \in 1..Len(y_true) : y_true[k] = 1
    /\ \E j, k \in 1..Len(scores) : scores[j] # scores[k]
    /\ auc = Half

C14_BinaryMetricsFormulas ==
    LET N == 1..Len(y_true)
        TP == Cardinality({k \in N : y_true[k] = 1 /\ y_pred[k] = 1})
        TN == Cardinality({k \in N : y_true[k] = 0 /\ y_pred[k] = 0})
        FP == Cardinality({k \in N : y_true[k] = 0 /\ y_pred[k] = 1})
        FN == Cardinality({k \in N : y_true[k] = 1 /\ y_pred[k] = 0})
        Ratio(n, d) == IF d = 0 THEN [kind |-> "num", num |-> 0, den |-> 1] ELSE Rat(n, d)
        m == binary_metrics
    IN pcMet \in {"binary", "done"} =>
          /\ m.sensitivity = Ratio(TP, TP + FN)
          /\ m.specificity = Ratio(TN, TN + FP)
          /\ m.precision = Ratio(TP, TP + FP)
          /\ m.f1_score = (IF TP = 0 THEN Ratio(0, 0) ELSE Ratio(2 * TP, 2 * TP + FP + FN))
          /\ m.accuracy = Ratio(TP + TN, Len(y_true))
          /\ \A v \in {m.sensitivity, m.specificity, m.precision, m.f1_score, m.accuracy} :
                ~IsNaN(v)

C14_Witness ==
    /\ pcMet = "binary"
    /\ Len(y_true) = 3
    /\ y_true = <<1, 1, 0>>
    /\ y_pred = <<1, 0, 1>>
    /\ binary_metrics.f1_score = Rat(1, 2)
    /\ binary_metrics.specificity = Rat(0, 1)

\* C15: for boolean arrays of equal length, sensitivity, specificity,
\* precision, f1_score and accuracy all lie in [0, 1].
C15_BinaryMetricsBounded ==
    pcMet \in {"binary", "done"} =>
        \A v \in {binary_metrics.sensitivity, binary_metrics.specificity,
                  binary_metrics.precision, binary_metrics.f1_score,
                  binary_metrics.accuracy} :
            /\ v.kind = "num"
            /\ 0 <= v.num
            /\ v.num <= v.den

C15_Witness ==
    /\ pcMet = "binary"
    /\ Len(y_true) >= 2
    /\ binary_metrics.accuracy = Rat(1, 1)
    /\ binary_metrics.sensitivity = Rat(1, 1)
    /\ binary_metrics.specificity = Rat(1, 1)
\* C13: evaluation does not depend on the order of its inputs: for the
\* permuted DetectionResult sequence and series list, evaluate_method returns
\* the same MethodMetrics for every method, auc_roc included.
C13_OrderIndependent ==
    \A k \in 1..Len(method_metrics) : method_metrics2[k] = method_metrics[k]
\* The rows of results_df of one method that join with a ground-truth row,
\* and the ground-truth row a results row joins with.
Joins(i) ==
    \E j \in 1..Len(ground_truth_df) :
        /\ ground_truth_df[j].series_id = results_df[i].series_id
        /\ ground_truth_df[j].scenario = results_df[i].scenario

RowsOf(m) == {i \in 1..Len(results_df) : results_df[i].method = m /\ Joins(i)}

Truth(i) ==
    ground_truth_df[CHOOSE j \in 1..Len(ground_truth_df) :
                        /\ ground_truth_df[j].series_id = results_df[i].series_id
                        /\ ground_truth_df[j].scenario = results_df[i].scenario]

\* The row evaluate_method has just added to method_metrics, if any: every row
\* is the new one in the state after its EvalMethod step.
NewMethodRows == IF pcEval = "methods" /\ method_metrics # <<>>
                 THEN {Len(method_metrics)} ELSE {}

\* C16 (as claimed): if detected_period == true_period for every
\* true-positive row of a method (ground truth seasonal and predicted
\* is_seasonal), that method's period_mae and period_mape are 0.
C16_ExactOnTruePositives ==
    \A k \in NewMethodRows :
        (\A i \in RowsOf(method_metrics[k].method) :
            (Truth(i).is_seasonal /\ results_df[i].is_seasonal)
                => results_df[i].detected_period = Some(Truth(i).true_period))
        => (method_metrics[k].period_mae = Zero /\ method_metrics[k].period_mape = Zero)

\* C16 (amended): if a method has at least one row whose ground truth is
\* seasonal and whose detected period is present, and detected_period ==
\* true_period (a positive period) for every such row, that method's
\* period_mae and period_mape are 0.
C16_ExactOnSeasonalWithPeriod ==
    \A k \in NewMethodRows :
        LET Measured == {i \in RowsOf(method_metrics[k].method) :
                            Truth(i).is_seasonal /\ results_df[i].detected_period # None}
        IN (/\ Measured # {}
            /\ \A i \in Measured :
                  /\ Truth(i).true_period > 0
                  /\ results_df[i].detected_period = Some(Truth(i).true_period))
           => (method_metrics[k].period_mae = Zero /\ method_metrics[k].period_mape = Zero)

C16_Witness ==
    \E k \in NewMethodRows :
        LET rows == RowsOf(method_metrics[k].method)
        IN /\ method_metrics[k].period_mae = Zero
           /\ method_metrics[k].period_mape = Zero
           /\ \E i \in rows : Truth(i).is_seasonal /\ ~results_df[i].is_seasonal
                              /\ results_df[i].detected_period = Some(Truth(i).true_period)
           /\ \E i \in rows : ~Truth(i).is_seasonal /\ results_df[i].detected_period # None
\* C17: period_mae and period_mape of a method are computed over exactly its
\* joined rows whose ground truth is seasonal and whose detected period is
\* present: period_mae = mean |pred - true|, period_mape =
\* mean(|pred - true| / true) * 100; with no such row both are NaN.
C17_PeriodErrorRows ==
    \A k \in NewMethodRows :
        LET Measured == {i \in RowsOf(method_metrics[k].method) :
                            Truth(i).is_seasonal /\ results_df[i].detected_period # None}
            n == Cardinality(Measured)
            Err(i) == Abs(results_df[i].detected_period[1] - Truth(i).true_period)
            errors == [i \in 1..Len(results_df) |->
                          IF i \in Measured THEN Rat(Err(i), 1) ELSE Zero]
            relative == [i \in 1..Len(results_df) |->
                            IF i \in Measured THEN Rat(Err(i) * 100, Truth(i).true_period)
                            ELSE Zero]
        IN IF n = 0
           THEN IsNaN(method_metrics[k].period_mae) /\ IsNaN(method_metrics[k].period_mape)
           ELSE /\ method_metrics[k].period_mae = FDiv(FSum(errors), Rat(n, 1))
                /\ method_metrics[k].period_mape = FDiv(FSum(relative), Rat(n, 1))

C17_Witness ==
    /\ pcEval = "returned"
    /\ \E k \in 1..Len(method_metrics) :
          /\ IsNaN(method_metrics[k].period_mae)
          /\ \E i \in RowsOf(method_metrics[k].method) : Truth(i).is_seasonal
    /\ \E k \in 1..Len(method_metrics) :
          /\ FGreater(method_metrics[k].period_mae, Zero)
          /\ \E i \in RowsOf(method_metrics[k].method) :
                Truth(i).is_seasonal /\ results_df[i].detected_period = None
          /\ \E i \in RowsOf(method_metrics[k].method) :
                ~Truth(i).is_seasonal /\ results_df[i].detected_period # None
NewScenarioRows == IF pcEval = "scenarios" /\ scenario_metrics # <<>>
                   THEN {Len(scenario_metrics)} ELSE {}

\* C19: for every (scenario, method) pair, if the scenario has a true period
\* (> 0), period_accuracy is the fraction of the pair's rows with
\* |detected_period - true_period| / true_period < 0.10, rows without a
\* detected period counting as misses; it is NaN only when the scenario has no
\* true period.
C19_PeriodAccuracy ==
    \A k \in NewScenarioRows :
        LET row == scenario_metrics[k]
            Pair == {i \in RowsOf(row.method) : results_df[i].scenario = row.scenario}
            true_period == Truth(CHOOSE i \in Pair : TRUE).true_period
            Hits == {i \in Pair :
                        /\ results_df[i].detected_period # None
                        /\ Abs(results_df[i].detected_period[1] - Truth(i).true_period) * 10
                              < Truth(i).true_period}
        IN IF true_period > 0
           THEN row.period_accuracy = Rat(Cardinality(Hits), Cardinality(Pair))
           ELSE IsNaN(row.period_accuracy)

\* C20: when every backend call of a method failed in a completed run
\* (evaluated beside the series it ran over, so that every result joins),
\* evaluate_all does not raise and returns method_metrics, scenario_metrics,
\* results and ground_truth; the method's sensitivity, precision and f1_score
\* are 0.0, and its detection_rate, mean_confidence and mean_strength are 0.0
\* in every scenario.
C20_FailedMethodReported ==
    LET Failed == {m \in {eval_methods[j] : j \in 1..Len(eval_methods)} :
                      \A i \in RowsOf(m) : results_df[i].has_error}
    IN (Failed # {} /\ \A i \in 1..Len(results_df) : Joins(i)) =>
          /\ pcEval # "raised"
          /\ \A k \in 1..Len(method_metrics) :
                method_metrics[k].method \in Failed =>
                    /\ method_metrics[k].sensitivity = Zero
                    /\ method_metrics[k].precision = Zero
                    /\ method_metrics[k].f1_score = Zero
          /\ \A k \in 1..Len(scenario_metrics) :
                scenario_metrics[k].method \in Failed =>
                    /\ scenario_metrics[k].detection_rate = Zero
                    /\ scenario_metrics[k].mean_confidence = Zero
                    /\ scenario_metrics[k].mean_strength = Zero
          /\ pcEval = "returned" =>
                /\ \A m \in Failed : \E k \in 1..Len(method_metrics) :
                      method_metrics[k].method = m
                /\ Len(method_metrics) = Len(eval_methods)
                /\ Len(scenario_metrics) = Len(eval_scenarios) * Len(eval_methods)
                /\ results_df = results_to_dataframe(results)
                /\ ground_truth_df = get_ground_truth(series_list)

C20_Witness ==
    /\ pcEval = "returned"
    /\ Len(eval_scenarios) >= 2
    /\ raisedCalls # {}
    /\ \E k \in 1..Len(method_metrics) :
          /\ \A i \in RowsOf(method_metrics[k].method) : results_df[i].has_error
          /\ method_metrics[k].method = "variance_strength"
          /\ method_metrics[k].sensitivity = Zero
          /\ \E i \in RowsOf(method_metrics[k].method) : Truth(i).is_seasonal
    /\ \A i \in 1..Len(results_df) : Joins(i)
\* C21: metric computation never raises on insufficient samples: for any
\* results and series list, including a method or a (scenario, method) pair
\* with zero joined rows, evaluate_method, evaluate_scenario and evaluate_all
\* return their sentinels instead of raising.
C21_NeverRaises == pcEval # "raised"
\* C22: in the output of generate_all_scenarios the series_ids of each scenario
\* are 0..n-1, each once, so the key (series_id, scenario) is unique in the
\* output; joined in evaluate_method with the ground truth of that output,
\* every result of a method over it has exactly one ground-truth row, and
\* TP + TN + FP + FN is the number of series.
C22_UniqueKeys ==
    pcGen = "returned" =>
        LET n == Len(all_series)
            rdf == results_to_dataframe(RunResults(all_series, 0, 1, ""))
            gdf == get_ground_truth(all_series)
        IN /\ \A c \in 1..Len(scenarios) :
                 LET Of == {k \in 1..n : all_series[k].scenario = scenarios[c]}
                 IN /\ {all_series[k].series_id : k \in Of}
                          = 0..(n_series_per_scenario - 1)
                    /\ Cardinality(Of) = n_series_per_scenario
           /\ \A j, k \in 1..n :
                 (/\ all_series[j].series_id = all_series[k].series_id
                  /\ all_series[j].scenario = all_series[k].scenario) => j = k
           /\ \A m \in 1..Len(methods) :
                 LET OfMethod(r) == r.method = methods[m]
                     method_df == SelectSeq(rdf, OfMethod)
                     merged == merge(method_df, gdf)
                     yt == [k \in 1..Len(merged) |-> AsInt(merged[k].is_seasonal_true)]
                     yp == [k \in 1..Len(merged) |-> AsInt(merged[k].is_seasonal_pred)]
                 IN /\ Len(method_df) = n
                    /\ \A k \in 1..Len(method_df) :
                          Cardinality({g \in 1..Len(gdf) :
                              /\ gdf[g].series_id = method_df[k].series_id
                              /\ gdf[g].scenario = method_df[k].scenario}) = 1
                    /\ CountBoth(yt, yp, 1, 1) + CountBoth(yt, yp, 0, 0)
                         + CountBoth(yt, yp, 0, 1) + CountBoth(yt, yp, 1, 0) = n

C22_Witness ==
    /\ pcGen = "returned"
    /\ n_series_per_scenario = 2
    /\ Len(all_series) = 14
    /\ \E j, k \in 1..Len(all_series) :
          /\ all_series[j].series_id = all_series[k].series_id
          /\ all_series[j].scenario # all_series[k].scenario
\* C23: detection issues exactly one blocking backend call per (series,
\* method) pair, with no retry after a failure, and at most one call is in
\* flight at any time: call k+1 is issued only after call k has returned or
\* raised.
C23_OneCallAtATime ==
    LET n == Len(backendCalls)
        Pending == {k \in 1..n : ~backendCalls[k].done}
        CallsOf(i, m) == {k \in 1..n : backendCalls[k].series = i
                                         /\ backendCalls[k].method = m}
    IN /\ Cardinality(Pending) <= 1
       /\ \A k \in 1..(n - 1) : backendCalls[k].done
       /\ (Pending # {}) <=> (pcDet = "calling")
       /\ \A i \in 1..Len(series_list) :
             \A m \in {"fft", "acf", "variance_strength", "spectral_strength",
                       "wavelet_strength", "classification", "change_detection"} :
                /\ Cardinality(CallsOf(i, m)) <= 1
                /\ pcDet = "returned" => Cardinality(CallsOf(i, m)) = 1
       /\ pcDet = "returned" => n = 7 * Len(series_list)
       /\ \A k \in RecordedCalls(raisedCalls) :
             /\ k <= n
             /\ CallsOf(backendCalls[k].series, backendCalls[k].method) = {k}

C23_Witness ==
    /\ pcDet = "returned"
    /\ Len(backendCalls) = 7 * MaxSeries
    /\ raisedCalls # {}
    /\ backendMode = "up"
\* C24: the pipeline stages never overlap: no backend call is issued before
\* generate_all_scenarios has returned the full series list, and no metric is
\* computed before run_all_methods has returned the results of all (series,
\* method) pairs.
C24_StagesDoNotOverlap ==
    /\ (pcDet # "waiting" \/ backendCalls # <<>> \/ results # <<>>) =>
          /\ pcGen = "returned"
          /\ series_list = all_series
          /\ Len(all_series) = 7 * n_series_per_scenario
    /\ (pcEval # "waiting" \/ method_metrics # <<>> \/ scenario_metrics # <<>>) =>
          /\ pcDet = "returned"
          /\ Len(results) = Len(methods) * Len(series_list)
          /\ \A k \in 1..Len(backendCalls) : backendCalls[k].done
          /\ \A i \in 1..Len(series_list) : \A j \in 1..Len(methods) :
                \E k \in 1..Len(results) :
                    /\ results[k].series_id = series_list[i].series_id
                    /\ results[k].scenario = series_list[i].scenario
                    /\ results[k].method = methods[j]

C24_Witness ==
    /\ pcEval = "returned"
    /\ Len(all_series) = 7
    /\ Len(results) = 49
    /\ Len(method_metrics) = 7
    /\ Len(scenario_metrics) = 49
\* C25: for variance_strength, spectral_strength and wavelet_strength, on a
\* successful backend call is_seasonal is true if and only if the returned
\* strength is strictly greater than 0.3; a null strength is treated as 0.0
\* (confidence = strength = 0.0, is_seasonal = False) and is not an error.
C25_StrengthThreshold ==
    \A k \in 1..Len(results) :
        (/\ results[k].method \in {"variance_strength", "spectral_strength",
                                   "wavelet_strength"}
         /\ k \notin raisedCalls) =>
            LET returned == StrengthResponse(CallLevel(k))
            IN /\ ~HasKey(results[k].extra, "error")
               /\ IF returned = None
                  THEN /\ results[k].confidence = 0
                       /\ results[k].strength = 0
                       /\ ~results[k].is_seasonal
                  ELSE /\ results[k].confidence = returned[1]
                       /\ results[k].strength = returned[1]
                       /\ results[k].is_seasonal <=> (returned[1] > 3)

C25_Witness ==
    /\ pcDet = "returned"
    /\ \E k \in 1..Len(results) :
          /\ results[k].method = "spectral_strength"
          /\ k \notin raisedCalls
          /\ StrengthResponse(CallLevel(k)) = Some(3)
          /\ ~results[k].is_seasonal
    /\ \E k \in 1..Len(results) :
          /\ results[k].method = "variance_strength"
          /\ StrengthResponse(CallLevel(k)) = None
          /\ k \notin raisedCalls
    /\ \E k \in 1..Len(results) :
          /\ results[k].method = "wavelet_strength"
          /\ results[k].is_seasonal
\* The gates of the values of the series of the two transition scenarios
\* generated so far: [n, t, gate] with n = params.n_points.
GatesOf(list) ==
    UNION {{[n |-> Len(list[k].values), t |-> list[k].values[v].seasonal.t,
             gate |-> list[k].values[v].seasonal.gate] : v \in 1..Len(list[k].values)} :
           k \in {j \in 1..Len(list) :
                     list[j].scenario \in {"emerging_seasonal", "fading_seasonal"}}}

TransitionGates == GatesOf(all_series) \cup GatesOf(scenSeries)

\* C26: in emerging_seasonal and fading_seasonal the sigmoid transition uses
\* midpoint = n_points / 2 and width = n_points / 10 exactly, for every
\* n_points: the argument of the sigmoid at t is (t - n_points / 2) /
\* (n_points / 10).
C26_ExactMidpointAndWidth ==
    \A g \in TransitionGates :
        /\ 2 * (g.t - g.gate.num) = g.n
        /\ 10 * g.gate.den.num = g.n * g.gate.den.den
\* C27: for every params with n_points >= 1 and period > 0 no generator
\* divides by zero: the transition width of emerging_seasonal and
\* fading_seasonal and the modulation period n_points / 2 of
\* variable_amplitude are nonzero, so every value of every generated series is
\* a finite number.
C27_NoDivisionByZero ==
    (params.n_points >= 1 /\ params.period > 0) =>
        \A list \in {all_series, scenSeries} :
            \A k \in 1..Len(list) : \A v \in 1..Len(list[k].values) :
                LET g == list[k].values[v].seasonal.gate
                IN /\ g.den.num # 0
                   /\ GateFinite(g)
\* C28: a result is marked as failed exactly when the backend failed:
\* has_error is True (extra has the key "error") if and only if the backend
\* call of that (series, method) pair raised; an fft or acf response whose
\* period is null yields has_error False and is_seasonal False.
C28_ErrorIffBackendRaised ==
    LET df == results_to_dataframe(results)
    IN \A k \in 1..Len(results) :
          /\ df[k].has_error <=> (k \in raisedCalls)
          /\ (/\ k \notin raisedCalls
              /\ \/ df[k].method = "fft"
                    /\ FftResponse(CallLevel(k)).primary_period = None
                 \/ df[k].method = "acf"
                    /\ AcfResponse(CallLevel(k)).period = None)
             => (~df[k].has_error /\ ~df[k].is_seasonal)
\* C29: when all scores are equal and both classes are present,
\* compute_auc_roc returns 0.5 whatever the order of the samples (as for the
\* change_detection method, whose confidence is always 0.0).
C29_TiedScoresHalf ==
    (/\ pcMet = "done"
     /\ \E k \in 1..Len(y_true) : y_true[k] = 1
     /\ \E k \in 1..Len(y_true) : y_true[k] = 0
     /\ \A j, k \in 1..Len(scores) : scores[j] = scores[k])
        => auc = Half
\* C30: rows produced by a failed backend call never contribute to the period
\* metrics: period_mae and period_mape of a method are computed only from its
\* rows whose backend call succeeded (and NaN when there is none to compute
\* from, as for a method whose every call failed), and period_accuracy of a
\* (scenario, method) pair whose every call failed is NaN.
C30_FailedRowsExcluded ==
    /\ \A k \in NewMethodRows :
          LET Measured == {i \in RowsOf(method_metrics[k].method) :
                              /\ Truth(i).is_seasonal
                              /\ results_df[i].detected_period # None
                              /\ ~results_df[i].has_error}
              n == Cardinality(Measured)
              Err(i) == Abs(results_df[i].detected_period[1] - Truth(i).true_period)
              errors == [i \in 1..Len(results_df) |->
                            IF i \in Measured THEN Rat(Err(i), 1) ELSE Zero]
              relative == [i \in 1..Len(results_df) |->
                              IF i \in Measured
                              THEN Rat(Err(i) * 100, Truth(i).true_period) ELSE Zero]
          IN IF n = 0
             THEN /\ IsNaN(method_metrics[k].period_mae)
                  /\ IsNaN(method_metrics[k].period_mape)
             ELSE /\ method_metrics[k].period_mae = FDiv(FSum(errors), Rat(n, 1))
                  /\ method_metrics[k].period_mape = FDiv(FSum(relative), Rat(n, 1))
    /\ \A k \in NewScenarioRows :
          LET row == scenario_metrics[k]
              Pair == {i \in RowsOf(row.method) : results_df[i].scenario = row.scenario}
          IN (\A i \in Pair : results_df[i].has_error) => IsNaN(row.period_accuracy)
====
